---- MODULE Spec2Model ----
(***************************************************************************)
(* Model of the m3db/fast-skiplist package (skiplist.go, type.go).         *)
(*                                                                         *)
(* Nodes are numbered: Sentinel is the list's own embedded elementNode,    *)
(* 1..MaxElems are the Elements in the order Set allocates them.  A forward *)
(* array `next []unsafe.Pointer` is a sequence; Go's slot i is index i+1.   *)
(* Every atomic.StorePointer to a forward slot is a step of its own, since  *)
(* Front and Element.Next load slot 0 without the mutex.  The predecessor   *)
(* search only reads the slots and only writes prevNodesCache, which is     *)
(* touched under the mutex alone, so it is one step with the decision that  *)
(* follows it.                                                             *)
(***************************************************************************)
EXTENDS Integers, Sequences, FiniteSets, TLC

\* ---------------------------------------------------------------- bounds
MaxElems == 3        \* Elements allocated over a run
NumThreads == 2      \* goroutines calling Set / Get / Remove
MaxLevelArg == 2     \* small arguments tried for NewWithMaxLevel
MaxValue == 2        \* values are 1..MaxValue

\* ------------------------------------------------------ program constants
DefaultMaxLevel == 18
MaxMaxLevel == 64
\* float64 arithmetic is fixed point with RandScale standing for 1.0; it is
\* the divisor 1<<63 that turns Int63() into r in [0,1).
RandScale == 64
\* 1/e in that fixed point (0.3679 * 64 = 23.5)
DefaultProbability == 24

Nil == 0 - 1
Sentinel == 0
Panic == 0 - 2

Elems == 1..MaxElems
Nodes == {Sentinel} \cup Elems
Threads == 1..NumThreads
Readers == {1}
Values == 1..MaxValue

\* keys are byte slices
Keys == {<<1>>, <<1, 0>>, <<2>>}
NoKey == <<>>

\* arguments tried for NewWithMaxLevel: out of range on both sides, small
\* levels, the default, one more than the default, the largest allowed
LevelArgs == (0..MaxLevelArg) \cup {DefaultMaxLevel + 1, MaxMaxLevel, MaxMaxLevel + 1}

\* values Int63() returns, out of 0..RandScale-1
RandDraws == {0, 16, 32}

\* arguments tried for SetProbability in the fixed point: 0.0, 0.5 and 1.0
\* (every r is below a table entry of 1.0, as it is below any larger one)
Probabilities == {0, RandScale \div 2, RandScale}

VARIABLES
    built,            \* "none" before construction, "list", or "panic"
    maxLevel,         \* SkipList.maxLevel
    Length,           \* SkipList.Length
    probability,      \* SkipList.probability
    probTable,        \* SkipList.probTable
    mutex,            \* SkipList.mutex: the thread holding Lock(), or Nil
    prevNodesCache,   \* SkipList.prevNodesCache
    next,             \* elementNode.next of the sentinel and of each Element
    key,              \* Element.key
    value,            \* Element.value
    nelems,           \* number of Elements allocated so far
    pc,               \* per thread: position in its call; "lock" is at list.mutex.Lock()
    op,               \* per thread: the method it is in
    argKey,           \* per thread: the key argument
    argValue,         \* per thread: the value argument
    element,          \* per thread: the local `element`
    idx,              \* per thread: the loop variable i / k
    ret,              \* per thread: the returned pointer
    rpc,              \* per reader: "idle", "iter" or "done"
    cur,              \* per reader: the Element the iteration is on
    shadow,           \* history: key -> value of the completed Set/Remove calls
    removed,          \* history: Elements a completed Remove has unlinked
    pending,          \* history, per reader: Elements linked ever since its Front()
                      \*   that its traversal has not returned yet
    gone,             \* history, per reader: `removed` at the time of its Front()
    stored            \* history: the slots <<e, i>> of Elements that Set has stored to

listVars == <<built, maxLevel, Length, probability, probTable, mutex, prevNodesCache,
              next, key, value, nelems>>
threadVars == <<pc, op, argKey, argValue, element, idx, ret>>
readerVars == <<rpc, cur>>
historyVars == <<shadow, removed, pending, gone, stored>>
vars == <<listVars, threadVars, readerVars, historyVars>>

\* ------------------------------------------------------------ pure helpers

\* bytes.Compare: unsigned lexicographic, a proper prefix is less
RECURSIVE bytesCompare(_, _)
bytesCompare(a, b) ==
    IF a = <<>> /\ b = <<>> THEN 0
    ELSE IF a = <<>> THEN 0 - 1
    ELSE IF b = <<>> THEN 1
    ELSE IF Head(a) < Head(b) THEN 0 - 1
    ELSE IF Head(a) > Head(b) THEN 1
    ELSE bytesCompare(Tail(a), Tail(b))

\* math.Pow(probability, e) in fixed point
RECURSIVE Pow(_, _)
Pow(p, e) == IF e = 0 THEN RandScale ELSE (Pow(p, e - 1) * p) \div RandScale

probabilityTable(p, MaxLevel) == [i \in 1..MaxLevel |-> Pow(p, i - 1)]

\* make([]unsafe.Pointer, n) / make([]*elementNode, n)
MakeNil(n) == [i \in 1..n |-> Nil]

\* n.next[i] is in range
InRange(n, i) == i >= 0 /\ i + 1 <= Len(next[n])

\* elementNode.NextAt(i), slot i in range
NextAt(n, i) == next[n][i + 1]

\* the chain of level lvl from a node, followed for at most `fuel` pointers
RECURSIVE Chain(_, _, _)
Chain(n, lvl, fuel) ==
    IF fuel = 0 \/ ~InRange(n, lvl) \/ NextAt(n, lvl) = Nil THEN <<>>
    ELSE <<NextAt(n, lvl)>> \o Chain(NextAt(n, lvl), lvl, fuel - 1)

\* ------------------------------------------------------------- the search

\* walk with a fault: the loop also steps over an element whose key equals k
RECURSIVE walkPastEqual(_, _, _)
walkPastEqual(prev, i, k) ==
    IF ~InRange(prev, i) THEN Panic
    ELSE IF NextAt(prev, i) # Nil /\ bytesCompare(k, key[NextAt(prev, i)]) >= 0
         THEN walkPastEqual(NextAt(prev, i), i, k)
         ELSE prev

\* the inner loop of getPrevElementNodes and of Get at level i, entered at
\* prev: the node it stops on, or Panic when a slot index is out of range
RECURSIVE walk(_, _, _)
walk(prev, i, k) ==
    IF ~InRange(prev, i) THEN Panic
    ELSE IF NextAt(prev, i) # Nil /\ bytesCompare(k, key[NextAt(prev, i)]) > 0
         THEN walk(NextAt(prev, i), i, k)
         ELSE prev

\* the outer loop of getPrevElementNodes from level i down, prevs filled so far
RECURSIVE searchFrom(_, _, _, _)
searchFrom(prev, i, k, prevs) ==
    IF i < 0 THEN [panic |-> FALSE, prevs |-> prevs]
    ELSE IF walk(prev, i, k) = Panic \/ i + 1 > Len(prevs)
         THEN [panic |-> TRUE, prevs |-> prevs]
         ELSE searchFrom(walk(prev, i, k), i - 1, k,
                         [prevs EXCEPT ![i + 1] = walk(prev, i, k)])

getPrevElementNodes(k) == searchFrom(Sentinel, maxLevel - 1, k, prevNodesCache)

\* the loop of Get from level i down: the node it ends on, or Panic
RECURSIVE getFrom(_, _, _)
getFrom(prev, i, k) ==
    IF walk(prev, i, k) = Panic THEN Panic
    ELSE IF i = 0 THEN walk(prev, i, k)
    ELSE getFrom(walk(prev, i, k), i - 1, k)

\* Get's local `next` after its loop (Nil when the loop body never ran)
getNext(k) ==
    IF maxLevel - 1 < 0 THEN Nil
    ELSE IF getFrom(Sentinel, maxLevel - 1, k) = Panic THEN Panic
    ELSE NextAt(getFrom(Sentinel, maxLevel - 1, k), 0)

\* matches with a fault: the test is strict, so an equal key never matches
matchesStrict(e, k) == e # Nil /\ bytesCompare(key[e], k) < 0

\* the match test of Set, Get and Remove on a candidate
matches(e, k) == e # Nil /\ bytesCompare(key[e], k) <= 0

\* levelFrom with a fault: the loop does not stop at maxLevel
RECURSIVE levelFromUnbounded(_, _)
levelFromUnbounded(level, draw) ==
    IF level + 1 <= Len(probTable) /\ draw < probTable[level + 1]
    THEN levelFromUnbounded(level + 1, draw)
    ELSE level

\* randLevel with r = draw / RandScale
RECURSIVE levelFrom(_, _)
levelFrom(level, draw) ==
    IF level < maxLevel /\ draw < probTable[level + 1]
    THEN levelFrom(level + 1, draw)
    ELSE level

randLevel(draw) == levelFrom(1, draw)

\* the loop of randLevel reading its table entries from tbl
RECURSIVE levelWith(_, _, _)
levelWith(tbl, level, draw) ==
    IF level < maxLevel /\ draw < tbl[level + 1]
    THEN levelWith(tbl, level + 1, draw)
    ELSE level

\* what the loop of randLevel can read from list.probTable while
\* SetProbability(p) replaces it with no synchronisation: each entry is the
\* old one, the new one, or the zero of the new array not yet filled in
RacyTables(p) ==
    {tbl \in [1..maxLevel -> 0..RandScale] :
        \A i \in 1..maxLevel :
            tbl[i] \in {probTable[i], probabilityTable(p, maxLevel)[i], 0}}

\* ------------------------------------------------------------------ state

Init ==
    /\ built = "none"
    /\ maxLevel = 0
    /\ Length = 0
    /\ probability = 0
    /\ probTable = <<>>
    /\ mutex = Nil
    /\ prevNodesCache = <<>>
    /\ next = [n \in Nodes |-> <<>>]
    /\ key = [e \in Elems |-> NoKey]
    /\ value = [e \in Elems |-> Nil]
    /\ nelems = 0
    /\ pc = [t \in Threads |-> "lock"]
    /\ op = [t \in Threads |-> "none"]
    /\ argKey = [t \in Threads |-> NoKey]
    /\ argValue = [t \in Threads |-> Nil]
    /\ element = [t \in Threads |-> Nil]
    /\ idx = [t \in Threads |-> 0]
    /\ ret = [t \in Threads |-> Nil]
    /\ rpc = [r \in Readers |-> "idle"]
    /\ cur = [r \in Readers |-> Nil]
    /\ shadow = [k \in Keys |-> Nil]
    /\ removed = {}
    /\ pending = [r \in Readers |-> {}]
    /\ gone = [r \in Readers |-> {}]
    /\ stored = {}

\* a panic nobody recovers ends the program
Crashed == \E t \in Threads : pc[t] = "panic"
Running == built = "list" /\ ~Crashed

\* Elements on the level-0 chain from the sentinel
Linked == {Chain(Sentinel, 0, MaxElems)[j] : j \in 1..Len(Chain(Sentinel, 0, MaxElems))}

\* the Element on the level-0 chain that holds k, or Nil
Holder(k) ==
    IF \E e \in Linked : key[e] = k THEN CHOOSE e \in Linked : key[e] = k ELSE Nil

\* ----------------------------------------------------------- construction

\* NewWithMaxLevel with a fault: every n above DefaultMaxLevel is rejected
NewWithMaxLevelRejectsAboveDefault(n) ==
    /\ built = "none"
    /\ IF n < 1 \/ n > DefaultMaxLevel
       THEN /\ built' = "panic"
            /\ UNCHANGED <<maxLevel, probability, probTable, prevNodesCache, next>>
       ELSE /\ built' = "list"
            /\ next' = [next EXCEPT ![Sentinel] = MakeNil(DefaultMaxLevel)]
            /\ prevNodesCache' = MakeNil(DefaultMaxLevel)
            /\ maxLevel' = n
            /\ probability' = DefaultProbability
            /\ probTable' = probabilityTable(DefaultProbability, DefaultMaxLevel)
    /\ UNCHANGED <<Length, mutex, key, value, nelems>>
    /\ UNCHANGED <<threadVars, readerVars, historyVars>>

NewWithMaxLevel(n) ==
    /\ built = "none"
    /\ IF n < 1 \/ n > MaxMaxLevel
       THEN /\ built' = "panic"
            /\ UNCHANGED <<maxLevel, probability, probTable, prevNodesCache, next>>
       ELSE /\ built' = "list"
            /\ next' = [next EXCEPT ![Sentinel] = MakeNil(DefaultMaxLevel)]
            /\ prevNodesCache' = MakeNil(DefaultMaxLevel)
            /\ maxLevel' = n
            /\ probability' = DefaultProbability
            /\ probTable' = probabilityTable(DefaultProbability, DefaultMaxLevel)
    /\ UNCHANGED <<Length, mutex, key, value, nelems>>
    /\ UNCHANGED <<threadVars, readerVars, historyVars>>

\* ------------------------------------------------- entering and leaving

\* Lock with a fault: the call goes on without waiting for the mutex
LockNoWait(t, o, k, v) ==
    /\ Running
    /\ pc[t] = "lock"
    /\ o = "Set" => (nelems < MaxElems \/ Holder(k) # Nil)
    /\ mutex' = t
    /\ pc' = [pc EXCEPT ![t] = "search"]
    /\ op' = [op EXCEPT ![t] = o]
    /\ argKey' = [argKey EXCEPT ![t] = k]
    /\ argValue' = [argValue EXCEPT ![t] = IF o = "Set" THEN v ELSE Nil]
    /\ UNCHANGED <<built, maxLevel, Length, probability, probTable, prevNodesCache,
                   next, key, value, nelems>>
    /\ UNCHANGED <<element, idx, ret, readerVars, historyVars>>

\* list.mutex.Lock() of the goroutine's next call, and the call's arguments,
\* which nothing reads before; a Set that would need an Element beyond
\* MaxElems is not issued
Lock(t, o, k, v) ==
    /\ Running
    /\ pc[t] = "lock"
    /\ mutex = Nil
    /\ o = "Set" => (nelems < MaxElems \/ Holder(k) # Nil)
    /\ mutex' = t
    /\ pc' = [pc EXCEPT ![t] = "search"]
    /\ op' = [op EXCEPT ![t] = o]
    /\ argKey' = [argKey EXCEPT ![t] = k]
    /\ argValue' = [argValue EXCEPT ![t] = IF o = "Set" THEN v ELSE Nil]
    /\ UNCHANGED <<built, maxLevel, Length, probability, probTable, prevNodesCache,
                   next, key, value, nelems>>
    /\ UNCHANGED <<element, idx, ret, readerVars, historyVars>>

\* the deferred list.mutex.Unlock() as the call returns
Unlock(t) ==
    /\ Running
    /\ pc[t] = "return"
    /\ mutex' = Nil
    /\ pc' = [pc EXCEPT ![t] = "lock"]
    /\ op' = [op EXCEPT ![t] = "none"]
    /\ argKey' = [argKey EXCEPT ![t] = NoKey]
    /\ argValue' = [argValue EXCEPT ![t] = Nil]
    /\ element' = [element EXCEPT ![t] = Nil]
    /\ idx' = [idx EXCEPT ![t] = 0]
    /\ ret' = [ret EXCEPT ![t] = Nil]
    /\ UNCHANGED <<built, maxLevel, Length, probability, probTable, prevNodesCache,
                   next, key, value, nelems>>
    /\ UNCHANGED <<readerVars, historyVars>>

\* an index out of range or a nil dereference: the deferred Unlock runs and
\* the panic ends the program
Crash(t) ==
    /\ pc' = [pc EXCEPT ![t] = "panic"]
    /\ mutex' = Nil
    /\ UNCHANGED <<built, maxLevel, Length, probability, probTable, prevNodesCache,
                   next, key, value, nelems>>
    /\ UNCHANGED <<op, argKey, argValue, element, idx, ret, readerVars, historyVars>>

\* -------------------------------------------------------------------- Set

\* the candidate prevs[0].Next() after a search that returned prevs
Candidate(prevs) == NextAt(prevs[1], 0)

\* getPrevElementNodes, or the loop of Get, runs off the end of a next array
SearchPanic(t) ==
    /\ Running
    /\ pc[t] = "search"
    /\ \/ op[t] \in {"Set", "Remove"} /\ getPrevElementNodes(argKey[t]).panic
       \/ op[t] = "Get" /\ getNext(argKey[t]) = Panic
    /\ Crash(t)

\* Set, the key is there: element.value = value; return element
SetUpdate(t) ==
    /\ Running
    /\ pc[t] = "search" /\ op[t] = "Set"
    /\ ~getPrevElementNodes(argKey[t]).panic
    /\ matches(Candidate(getPrevElementNodes(argKey[t]).prevs), argKey[t])
    /\ prevNodesCache' = getPrevElementNodes(argKey[t]).prevs
    /\ value' = [value EXCEPT ![Candidate(prevNodesCache')] = argValue[t]]
    /\ element' = [element EXCEPT ![t] = Candidate(prevNodesCache')]
    /\ ret' = [ret EXCEPT ![t] = Candidate(prevNodesCache')]
    /\ pc' = [pc EXCEPT ![t] = "return"]
    /\ shadow' = [shadow EXCEPT ![argKey[t]] = argValue[t]]
    /\ UNCHANGED <<built, maxLevel, Length, probability, probTable, mutex, next, key, nelems>>
    /\ UNCHANGED <<op, argKey, argValue, idx, readerVars, removed, pending, gone, stored>>

\* Set, the key is not there: element = &Element{... make(.., randLevel())}
SetAlloc(t, draw) ==
    /\ Running
    /\ pc[t] = "search" /\ op[t] = "Set"
    /\ ~getPrevElementNodes(argKey[t]).panic
    /\ ~matches(Candidate(getPrevElementNodes(argKey[t]).prevs), argKey[t])
    /\ nelems < MaxElems
    /\ prevNodesCache' = getPrevElementNodes(argKey[t]).prevs
    /\ nelems' = nelems + 1
    /\ next' = [next EXCEPT ![nelems'] = MakeNil(randLevel(draw))]
    /\ key' = [key EXCEPT ![nelems'] = argKey[t]]
    /\ value' = [value EXCEPT ![nelems'] = argValue[t]]
    /\ element' = [element EXCEPT ![t] = nelems']
    /\ idx' = [idx EXCEPT ![t] = 0]
    /\ pc' = [pc EXCEPT ![t] = IF Len(next'[nelems']) = 0 THEN "set_count" ELSE "set_init"]
    /\ UNCHANGED <<built, maxLevel, Length, probability, probTable, mutex>>
    /\ UNCHANGED <<op, argKey, argValue, ret, readerVars, historyVars>>

\* prevs[i].next[i] can be read and written
PrevOk(i) ==
    /\ i + 1 <= Len(prevNodesCache)
    /\ prevNodesCache[i + 1] # Nil
    /\ InRange(prevNodesCache[i + 1], i)

\* SetInit with a fault: the store to the new element's own slot is missing
SetInitSkipsStore(t) ==
    /\ Running
    /\ pc[t] = "set_init"
    /\ pc' = [pc EXCEPT ![t] = "set_publish"]
    /\ UNCHANGED <<listVars, op, argKey, argValue, element, idx, ret, readerVars,
                   historyVars>>

\* SetInit with a fault: the new element's slot is pointed at the element itself
SetInitStoresSelf(t) ==
    /\ Running
    /\ pc[t] = "set_init"
    /\ IF ~PrevOk(idx[t])
       THEN Crash(t)
       ELSE /\ next' = [next EXCEPT ![element[t]][idx[t] + 1] = element[t]]
            /\ pc' = [pc EXCEPT ![t] = "set_publish"]
            /\ stored' = stored \cup {<<element[t], idx[t]>>}
            /\ UNCHANGED <<built, maxLevel, Length, probability, probTable, mutex,
                           prevNodesCache, key, value, nelems>>
            /\ UNCHANGED <<op, argKey, argValue, element, idx, ret, readerVars,
                           shadow, removed, pending, gone>>

\* atomic.StorePointer(&element.next[i], prevs[i].next[i])
SetInit(t) ==
    /\ Running
    /\ pc[t] = "set_init"
    /\ IF ~PrevOk(idx[t])
       THEN Crash(t)
       ELSE /\ next' = [next EXCEPT ![element[t]][idx[t] + 1] =
                            NextAt(prevNodesCache[idx[t] + 1], idx[t])]
            /\ pc' = [pc EXCEPT ![t] = "set_publish"]
            /\ stored' = stored \cup {<<element[t], idx[t]>>}
            /\ UNCHANGED <<built, maxLevel, Length, probability, probTable, mutex,
                           prevNodesCache, key, value, nelems>>
            /\ UNCHANGED <<op, argKey, argValue, element, idx, ret, readerVars,
                           shadow, removed, pending, gone>>

\* atomic.StorePointer(&prevs[i].next[i], unsafe.Pointer(element)), and i++
SetPublish(t) ==
    /\ Running
    /\ pc[t] = "set_publish"
    /\ next' = [next EXCEPT ![prevNodesCache[idx[t] + 1]][idx[t] + 1] = element[t]]
    /\ idx' = [idx EXCEPT ![t] = idx[t] + 1]
    /\ pc' = [pc EXCEPT ![t] = IF idx[t] + 1 < Len(next[element[t]])
                               THEN "set_init" ELSE "set_count"]
    /\ UNCHANGED <<built, maxLevel, Length, probability, probTable, mutex,
                   prevNodesCache, key, value, nelems>>
    /\ UNCHANGED <<op, argKey, argValue, element, ret, readerVars, historyVars>>

\* list.Length++; return element
SetCount(t) ==
    /\ Running
    /\ pc[t] = "set_count"
    /\ Length' = Length + 1
    /\ ret' = [ret EXCEPT ![t] = element[t]]
    /\ pc' = [pc EXCEPT ![t] = "return"]
    /\ shadow' = [shadow EXCEPT ![argKey[t]] = argValue[t]]
    /\ UNCHANGED <<built, maxLevel, probability, probTable, mutex, prevNodesCache,
                   next, key, value, nelems>>
    /\ UNCHANGED <<op, argKey, argValue, element, idx, readerVars, removed, pending,
                   gone, stored>>

\* -------------------------------------------------------------------- Get

Get(t) ==
    /\ Running
    /\ pc[t] = "search" /\ op[t] = "Get"
    /\ getNext(argKey[t]) # Panic
    /\ ret' = [ret EXCEPT ![t] = IF matches(getNext(argKey[t]), argKey[t])
                                 THEN getNext(argKey[t]) ELSE Nil]
    /\ pc' = [pc EXCEPT ![t] = "return"]
    /\ UNCHANGED <<listVars, op, argKey, argValue, element, idx, readerVars, historyVars>>

\* ----------------------------------------------------------------- Remove

\* Remove, the key is there: enter the unlink loop
RemoveFound(t) ==
    /\ Running
    /\ pc[t] = "search" /\ op[t] = "Remove"
    /\ ~getPrevElementNodes(argKey[t]).panic
    /\ matches(Candidate(getPrevElementNodes(argKey[t]).prevs), argKey[t])
    /\ prevNodesCache' = getPrevElementNodes(argKey[t]).prevs
    /\ element' = [element EXCEPT ![t] = Candidate(prevNodesCache')]
    /\ idx' = [idx EXCEPT ![t] = 0]
    /\ pc' = [pc EXCEPT ![t] = IF Len(next[Candidate(prevNodesCache')]) = 0
                               THEN "rm_count" ELSE "rm_unlink"]
    /\ UNCHANGED <<built, maxLevel, Length, probability, probTable, mutex, next, key,
                   value, nelems>>
    /\ UNCHANGED <<op, argKey, argValue, ret, readerVars, historyVars>>

\* Remove, the key is not there: return nil
RemoveMissing(t) ==
    /\ Running
    /\ pc[t] = "search" /\ op[t] = "Remove"
    /\ ~getPrevElementNodes(argKey[t]).panic
    /\ ~matches(Candidate(getPrevElementNodes(argKey[t]).prevs), argKey[t])
    /\ prevNodesCache' = getPrevElementNodes(argKey[t]).prevs
    /\ ret' = [ret EXCEPT ![t] = Nil]
    /\ pc' = [pc EXCEPT ![t] = "return"]
    /\ UNCHANGED <<built, maxLevel, Length, probability, probTable, mutex, next, key,
                   value, nelems>>
    /\ UNCHANGED <<op, argKey, argValue, element, idx, readerVars, historyVars>>

\* RemoveUnlink with a fault: the removed element's own slot is cleared as well
RemoveUnlinkClearsElement(t) ==
    /\ Running
    /\ pc[t] = "rm_unlink"
    /\ PrevOk(idx[t])
    /\ next' = [next EXCEPT ![prevNodesCache[idx[t] + 1]][idx[t] + 1] =
                                NextAt(element[t], idx[t]),
                            ![element[t]][idx[t] + 1] = Nil]
    /\ idx' = [idx EXCEPT ![t] = idx[t] + 1]
    /\ pc' = [pc EXCEPT ![t] = IF idx[t] + 1 < Len(next[element[t]])
                               THEN "rm_unlink" ELSE "rm_count"]
    /\ pending' = [r \in Readers |-> pending[r] \ (Linked \ Linked')]
    /\ UNCHANGED <<built, maxLevel, Length, probability, probTable, mutex,
                   prevNodesCache, key, value, nelems>>
    /\ UNCHANGED <<op, argKey, argValue, element, ret, readerVars, shadow,
                   removed, gone, stored>>

\* RemoveUnlink with a fault: only level 0 is unlinked
RemoveUnlinkLevel0Only(t) ==
    /\ Running
    /\ pc[t] = "rm_unlink"
    /\ PrevOk(idx[t])
    /\ next' = [next EXCEPT ![prevNodesCache[idx[t] + 1]][idx[t] + 1] =
                                NextAt(element[t], idx[t])]
    /\ idx' = [idx EXCEPT ![t] = idx[t] + 1]
    /\ pc' = [pc EXCEPT ![t] = "rm_count"]
    /\ pending' = [r \in Readers |-> pending[r] \ (Linked \ Linked')]
    /\ UNCHANGED <<built, maxLevel, Length, probability, probTable, mutex,
                   prevNodesCache, key, value, nelems>>
    /\ UNCHANGED <<op, argKey, argValue, element, ret, readerVars, shadow,
                   removed, gone, stored>>

\* atomic.StorePointer(&prevs[k].next[k], atomic.LoadPointer(&element.next[k])), k++
RemoveUnlink(t) ==
    /\ Running
    /\ pc[t] = "rm_unlink"
    /\ IF ~PrevOk(idx[t])
       THEN Crash(t)
       ELSE /\ next' = [next EXCEPT ![prevNodesCache[idx[t] + 1]][idx[t] + 1] =
                            NextAt(element[t], idx[t])]
            /\ idx' = [idx EXCEPT ![t] = idx[t] + 1]
            /\ pc' = [pc EXCEPT ![t] = IF idx[t] + 1 < Len(next[element[t]])
                                       THEN "rm_unlink" ELSE "rm_count"]
            /\ pending' = [r \in Readers |-> pending[r] \ (Linked \ Linked')]
            /\ UNCHANGED <<built, maxLevel, Length, probability, probTable, mutex,
                           prevNodesCache, key, value, nelems>>
            /\ UNCHANGED <<op, argKey, argValue, element, ret, readerVars, shadow,
                           removed, gone, stored>>

\* RemoveCount with a fault: Length is left as it was
RemoveCountKeepsLength(t) ==
    /\ Running
    /\ pc[t] = "rm_count"
    /\ ret' = [ret EXCEPT ![t] = element[t]]
    /\ pc' = [pc EXCEPT ![t] = "return"]
    /\ shadow' = [shadow EXCEPT ![argKey[t]] = Nil]
    /\ removed' = removed \cup {element[t]}
    /\ UNCHANGED <<built, maxLevel, Length, probability, probTable, mutex, prevNodesCache,
                   next, key, value, nelems>>
    /\ UNCHANGED <<op, argKey, argValue, element, idx, readerVars, pending, gone, stored>>

\* RemoveCount with a fault: the removed element's forward slots are cleared
RemoveCountClearsElement(t) ==
    /\ Running
    /\ pc[t] = "rm_count"
    /\ Length' = Length - 1
    /\ next' = [next EXCEPT ![element[t]] = MakeNil(Len(next[element[t]]))]
    /\ ret' = [ret EXCEPT ![t] = element[t]]
    /\ pc' = [pc EXCEPT ![t] = "return"]
    /\ shadow' = [shadow EXCEPT ![argKey[t]] = Nil]
    /\ removed' = removed \cup {element[t]}
    /\ UNCHANGED <<built, maxLevel, probability, probTable, mutex, prevNodesCache,
                   key, value, nelems>>
    /\ UNCHANGED <<op, argKey, argValue, element, idx, readerVars, pending, gone, stored>>

\* list.Length--; return element
RemoveCount(t) ==
    /\ Running
    /\ pc[t] = "rm_count"
    /\ Length' = Length - 1
    /\ ret' = [ret EXCEPT ![t] = element[t]]
    /\ pc' = [pc EXCEPT ![t] = "return"]
    /\ shadow' = [shadow EXCEPT ![argKey[t]] = Nil]
    /\ removed' = removed \cup {element[t]}
    /\ UNCHANGED <<built, maxLevel, probability, probTable, mutex, prevNodesCache,
                   next, key, value, nelems>>
    /\ UNCHANGED <<op, argKey, argValue, element, idx, readerVars, pending, gone, stored>>

\* ----------------------------------------------- iteration, without mutex

\* list.Front(): one atomic load of the sentinel's slot 0
Front(r) ==
    /\ Running
    /\ rpc[r] \in {"idle", "done"}
    /\ cur' = [cur EXCEPT ![r] = NextAt(Sentinel, 0)]
    /\ rpc' = [rpc EXCEPT ![r] = IF cur'[r] = Nil THEN "done" ELSE "iter"]
    /\ pending' = [pending EXCEPT ![r] = Linked \ {cur'[r]}]
    /\ gone' = [gone EXCEPT ![r] = removed]
    /\ UNCHANGED <<listVars, threadVars, shadow, removed, stored>>

\* ElementNext with a fault: the load waits until no writer holds the mutex
ElementNextRLock(r) ==
    /\ Running
    /\ mutex = Nil
    /\ rpc[r] = "iter"
    /\ cur' = [cur EXCEPT ![r] = NextAt(cur[r], 0)]
    /\ rpc' = [rpc EXCEPT ![r] = IF cur'[r] = Nil THEN "done" ELSE "iter"]
    /\ pending' = [pending EXCEPT ![r] = pending[r] \ {cur'[r]}]
    /\ UNCHANGED <<listVars, threadVars, shadow, removed, gone, stored>>

\* element.Next(): one atomic load of the Element's slot 0
ElementNext(r) ==
    /\ Running
    /\ rpc[r] = "iter"
    /\ cur' = [cur EXCEPT ![r] = NextAt(cur[r], 0)]
    /\ rpc' = [rpc EXCEPT ![r] = IF cur'[r] = Nil THEN "done" ELSE "iter"]
    /\ pending' = [pending EXCEPT ![r] = pending[r] \ {cur'[r]}]
    /\ UNCHANGED <<listVars, threadVars, shadow, removed, gone, stored>>

\* ------------------------------------------- SetProbability, without mutex

\* list.probability = newProbability; list.probTable = probabilityTable(...)
SetProbability(p) ==
    /\ Running
    /\ probability' = p
    /\ probTable' = probabilityTable(p, maxLevel)
    /\ UNCHANGED <<built, maxLevel, Length, mutex, prevNodesCache, next, key, value,
                   nelems>>
    /\ UNCHANGED <<threadVars, readerVars, historyVars>>

\* the allocation of Set while SetProbability(p) runs in another goroutine:
\* a data race on list.probTable, randLevel reads a table of RacyTables(p)
SetAllocRacing(t, draw, p) ==
    /\ Running
    /\ pc[t] = "search" /\ op[t] = "Set"
    /\ ~getPrevElementNodes(argKey[t]).panic
    /\ ~matches(Candidate(getPrevElementNodes(argKey[t]).prevs), argKey[t])
    /\ nelems < MaxElems
    /\ prevNodesCache' = getPrevElementNodes(argKey[t]).prevs
    /\ nelems' = nelems + 1
    /\ \E tbl \in RacyTables(p) :
           next' = [next EXCEPT ![nelems'] = MakeNil(levelWith(tbl, 1, draw))]
    /\ key' = [key EXCEPT ![nelems'] = argKey[t]]
    /\ value' = [value EXCEPT ![nelems'] = argValue[t]]
    /\ element' = [element EXCEPT ![t] = nelems']
    /\ idx' = [idx EXCEPT ![t] = 0]
    /\ pc' = [pc EXCEPT ![t] = IF Len(next'[nelems']) = 0 THEN "set_count" ELSE "set_init"]
    /\ probability' = p
    /\ probTable' = probabilityTable(p, maxLevel)
    /\ UNCHANGED <<built, maxLevel, Length, mutex>>
    /\ UNCHANGED <<op, argKey, argValue, ret, readerVars, historyVars>>

\* ---------------------------------------------------------- specification

Ops == {"Set", "Get", "Remove"}

Construct == \E n \in LevelArgs : NewWithMaxLevel(n)

\* a step of goroutine t inside Set, Get or Remove
Body(t) ==
    \/ Unlock(t)
    \/ SearchPanic(t)
    \/ SetUpdate(t)
    \/ \E draw \in RandDraws : SetAlloc(t, draw)
    \/ SetInit(t)
    \/ SetPublish(t)
    \/ SetCount(t)
    \/ Get(t)
    \/ RemoveFound(t)
    \/ RemoveMissing(t)
    \/ RemoveUnlink(t)
    \/ RemoveCount(t)

\* goroutines calling Set, Get and Remove on one list
Next ==
    \/ Construct
    \/ \E t \in Threads, o \in Ops, k \in Keys, v \in Values : Lock(t, o, k, v)
    \/ \E t \in Threads : Body(t)

Spec == Init /\ [][Next]_vars

\* goroutines calling Set and Get only (TestConcurrency)
BodySetGet(t) ==
    \/ Unlock(t)
    \/ SearchPanic(t)
    \/ SetUpdate(t)
    \/ \E draw \in RandDraws : SetAlloc(t, draw)
    \/ SetInit(t)
    \/ SetPublish(t)
    \/ SetCount(t)
    \/ Get(t)

NextSetGet ==
    \/ Construct
    \/ \E t \in Threads, o \in {"Set", "Get"}, k \in Keys, v \in Values : Lock(t, o, k, v)
    \/ \E t \in Threads : BodySetGet(t)

SpecSetGet == Init /\ [][NextSetGet]_vars

\* one goroutine calling Set, Get and Remove, another iterating
Writer == CHOOSE t \in Threads : \A u \in Threads : t <= u

NextIter ==
    \/ Construct
    \/ \E o \in Ops, k \in Keys : Lock(Writer, o, k, MaxValue)
    \/ Body(Writer)
    \/ \E r \in Readers : Front(r)
    \/ \E r \in Readers : ElementNext(r)

SpecIter == Init /\ [][NextIter]_vars

\* one goroutine calling Set, Get and Remove, another calling SetProbability
NextProb ==
    \/ Construct
    \/ \E o \in Ops, k \in Keys : Lock(Writer, o, k, MaxValue)
    \/ Body(Writer)
    \/ \E p \in Probabilities : SetProbability(p)
    \/ \E draw \in RandDraws, p \in Probabilities : SetAllocRacing(Writer, draw, p)

SpecProb == Init /\ [][NextProb]_vars

\* ------------------------------------------------------------ properties

\* no goroutine is past list.mutex.Lock() of a call
Quiescent == built = "list" /\ mutex = Nil

\* the whole level-0 chain from the sentinel (a cycle shows as a repeat)
Level0 == Chain(Sentinel, 0, MaxElems + 1)

\* the keys of a chain are strictly ascending
Ascending(c) ==
    \A j \in 1..(Len(c) - 1) : bytesCompare(key[c[j]], key[c[j + 1]]) < 0

\* what the map of the completed calls says Get(k) returns
IsLookup(e, k) ==
    IF shadow[k] = Nil THEN e = Nil
    ELSE e \in Elems /\ key[e] = k /\ value[e] = shadow[k]

\* C1: after any completed Set and Remove calls, every Get(k) returns the
\* element holding exactly k with the value of the last Set(k, v) not followed
\* by a Remove(k), and returns nil when there is none: a call of Get is never
\* left without that result.
C1_GetIsMapLookup ==
    \A t \in Threads :
        (op[t] = "Get" /\ pc[t] \in {"return", "panic"}) =>
            (pc[t] = "return" /\ IsLookup(ret[t], argKey[t]))

\* C1 on the lists whose sentinel holds every level (not the claim: what is
\* left of it where the search cannot run off the sentinel's array)
C1_LookupUpToDefaultLevel ==
    maxLevel <= DefaultMaxLevel => C1_GetIsMapLookup

\* C2: once the calls have completed, the level-0 chain from Front() has its
\* keys in strictly ascending byte-wise order, so no key twice.
C2_SortedChain == Quiescent => Ascending(Level0)

C2_Witness ==
    /\ Quiescent
    /\ Len(Level0) = 2
    /\ Level0[1] > Level0[2]
    /\ removed # {}

\* C3: once the calls have completed, Length is the number of elements on the
\* level-0 chain from the sentinel.
C3_LengthIsCount == Quiescent => Length = Len(Level0)

C3_Witness ==
    /\ Quiescent
    /\ Length = 2
    /\ removed # {}
    /\ \E e \in Elems : e \in removed /\ \E j \in 1..Len(Level0) : key[Level0[j]] = key[e]

\* C4: on a list built by NewWithMaxLevel(n), 1 <= n <= 64, every Set runs to
\* its return, and returns the element that holds the key, linked from the
\* sentinel.
C4_SetAlwaysSucceeds ==
    \A t \in Threads :
        op[t] = "Set" =>
            /\ pc[t] # "panic"
            /\ pc[t] = "return" =>
                   /\ ret[t] \in Linked
                   /\ key[ret[t]] = argKey[t]
                   /\ value[ret[t]] = argValue[t]

\* C5: at most one goroutine is past Lock() and before Unlock() of a Set, Get
\* or Remove, and it is the one the mutex records.
InBody(t) == pc[t] \notin {"lock", "panic"}

LevelChain(l) == Chain(Sentinel, l, MaxElems + 1)

\* e is on the level-l chain from the sentinel
OnLevel(e, l) == \E j \in 1..Len(LevelChain(l)) : LevelChain(l)[j] = e

\* the levels of the sentinel
Levels == 0..(Len(next[Sentinel]) - 1)

\* the Elements a traversal standing on node n still comes to
Ahead(n) == {Chain(n, 0, MaxElems + 1)[j] : j \in 1..Len(Chain(n, 0, MaxElems + 1))}

C7_AllSlotsBeforeAnyPublish ==
    \A e \in 1..nelems :
        (\E l \in Levels : OnLevel(e, l)) =>
            \A i \in 0..(Len(next[e]) - 1) : <<e, i>> \in stored

\* C7, amended: level by level, the new element's slot i is stored before
\* prevs[i].next[i] is pointed at it: an element on the level-i chain from the
\* sentinel has its own slot i stored, and that slot is nil or leads to a
\* greater key.
C7_SlotBeforePublishPerLevel ==
    \A e \in 1..nelems : \A l \in Levels :
        OnLevel(e, l) =>
            /\ <<e, l>> \in stored
            /\ NextAt(e, l) # Nil => bytesCompare(key[e], key[NextAt(e, l)]) < 0

C7_Witness ==
    \E t \in Threads :
        /\ pc[t] = "set_init" /\ idx[t] = 1
        /\ OnLevel(element[t], 0)
        /\ NextAt(element[t], 0) # Nil
        /\ <<element[t], 1>> \notin stored

\* C8: a traversal by Front() and Next() alongside Set and Remove, also one
\* standing on an element that has been removed meanwhile, still comes to every
\* element that has been linked since its Front(), and returns nil only once it
\* has returned them all.
C8_TraversalReachesRest ==
    \A r \in Readers :
        /\ rpc[r] = "done" => pending[r] = {}
        /\ rpc[r] = "iter" => pending[r] \subseteq Ahead(cur[r])

C8_Witness ==
    \E r \in Readers :
        /\ rpc[r] = "iter"
        /\ cur[r] \in removed \ gone[r]
        /\ pending[r] # {}

\* C9: an element a completed Remove has unlinked is on no chain from the
\* sentinel, no Get returns it, and no traversal whose Front() came after the
\* Remove stands on it.
C9_UnlinkedUnreachable ==
    /\ \A e \in removed : \A l \in Levels : ~OnLevel(e, l)
    /\ \A r \in Readers : rpc[r] = "iter" => cur[r] \notin gone[r]
    /\ \A t \in Threads : (op[t] = "Get" /\ pc[t] = "return") => ret[t] \notin removed

C9_Witness ==
    \E r \in Readers : \E e \in gone[r] :
        /\ rpc[r] = "iter"
        /\ cur[r] # e
        /\ key[cur[r]] = key[e]
        /\ cur[r] \in removed

\* C10: goroutines calling Set on distinct keys and Get, in any interleaving:
\* every call completes, and once they have, Length is the number of keys set
\* and the level-0 chain holds exactly that many elements in ascending order.
C10_ConcurrentSetGet ==
    /\ \A t \in Threads : pc[t] # "panic"
    /\ Quiescent =>
           /\ Length = Cardinality({k \in Keys : shadow[k] # Nil})
           /\ Length = Len(Level0)
           /\ Ascending(Level0)

\* C10 on the lists whose sentinel holds every level (not the claim: what is
\* left of it where the search cannot run off the sentinel's array)
C10_UpToDefaultLevel ==
    maxLevel <= DefaultMaxLevel => C10_ConcurrentSetGet

\* goroutine t is about to search for a key the level-0 chain holds
AtPresentKey(t, o) == pc[t] = "search" /\ op[t] = o /\ Holder(argKey[t]) # Nil

\* C11: Set(k, v2) on a key that is there ends in that one step: the element
\* holding k gets v2 and is returned, and nothing else changes: no forward
\* slot, no height, no key, no other value, not Length, and no Element is
\* allocated, so k is still held by exactly one element.
C11_UpdateInPlace ==
    [][\A t \in Threads :
          AtPresentKey(t, "Set") =>
              /\ pc'[t] = "return"
              /\ ret'[t] = Holder(argKey[t])
              /\ value' = [value EXCEPT ![Holder(argKey[t])] = argValue[t]]
              /\ next' = next
              /\ key' = key
              /\ Length' = Length
              /\ nelems' = nelems
              /\ Cardinality({e \in Linked' : key'[e] = argKey[t]}) = 1]_vars

C11_Witness ==
    \E t \in Threads :
        /\ op[t] = "Set" /\ pc[t] = "return" /\ idx[t] = 0
        /\ Len(next[ret[t]]) = 2
        /\ value[ret[t]] = MaxValue
        /\ Length = 2
        /\ nelems = 2

\* goroutine t is about to search for a key the level-0 chain does not hold
AtAbsentKey(t) ==
    pc[t] = "search" /\ op[t] \in {"Get", "Remove"} /\ Holder(argKey[t]) = Nil

\* the step of a Get or Remove on an absent key returns nil and leaves every
\* forward slot, value, key and Length as they were
AbsentKeyStep ==
    \A t \in Threads :
        AtAbsentKey(t) =>
            /\ pc'[t] = "return"
            /\ ret'[t] = Nil
            /\ next' = next
            /\ value' = value
            /\ key' = key
            /\ Length' = Length

\* C12: Get(k) and Remove(k) on a key that is not in the list return nil, not
\* an error, and leave the list as it was: every forward slot at every level,
\* every value and Length.
C12_AbsentKeyReportsNil == [][AbsentKeyStep]_vars

\* C12 on the lists whose sentinel holds every level (not the claim: what is
\* left of it where the search cannot run off the sentinel's array)
C12_UpToDefaultLevel == [][maxLevel <= DefaultMaxLevel => AbsentKeyStep]_vars

\* sequence a is a subsequence of sequence b, in the same order
RECURSIVE IsSubseq(_, _)
IsSubseq(a, b) ==
    IF a = <<>> THEN TRUE
    ELSE IF b = <<>> THEN FALSE
    ELSE IF Head(a) = Head(b) THEN IsSubseq(Tail(a), Tail(b))
    ELSE IsSubseq(a, Tail(b))

\* adjacent keys of a chain do not descend
NonDescending(c) ==
    \A j \in 1..(Len(c) - 1) : bytesCompare(key[c[j + 1]], key[c[j]]) >= 0

\* C13: once the calls have completed, for every level L >= 1 the chain of
\* level L from the sentinel is a subsequence of the chain of level L-1, holds
\* only elements of height above L, and its keys do not descend; so every
\* element of a level-L chain is on the level-0 chain.
C13_LevelConsistency ==
    Quiescent =>
        \A l \in Levels \ {0} :
            /\ IsSubseq(LevelChain(l), LevelChain(l - 1))
            /\ \A j \in 1..Len(LevelChain(l)) : Len(next[LevelChain(l)[j]]) > l
            /\ NonDescending(LevelChain(l))
            /\ \A j \in 1..Len(LevelChain(l)) : LevelChain(l)[j] \in Linked

C13_Witness ==
    /\ Quiescent
    /\ Len(LevelChain(1)) = 2
    /\ LevelChain(1)[1] > LevelChain(1)[2]
    /\ Len(LevelChain(0)) = 3

\* C14: the sentinel of a list built by NewWithMaxLevel(n) has exactly
\* maxLevel = n forward slots, in every state of the list.
C14_SentinelHasMaxLevelSlots ==
    built = "list" => Len(next[Sentinel]) = maxLevel

\* what the constructor does instead: the sentinel, the scratch buffer of the
\* search and the probability table all have DefaultMaxLevel entries, whatever
\* n was, and no later call resizes the sentinel or the scratch buffer
C14_SentinelHasDefaultSlots ==
    built = "list" =>
        /\ Len(next[Sentinel]) = DefaultMaxLevel
        /\ Len(prevNodesCache) = DefaultMaxLevel

\* C15: NewWithMaxLevel(n) panics and produces no list exactly when n < 1 or
\* n > 64; for every n in 1..64 it returns an empty list with maxLevel = n,
\* Length = 0 and an absent Front().
C15_ConstructorDomain ==
    [][\A n \in LevelArgs :
          NewWithMaxLevel(n) =>
              IF n < 1 \/ n > MaxMaxLevel
              THEN built' = "panic"
              ELSE /\ built' = "list"
                   /\ maxLevel' = n
                   /\ Length' = 0
                   /\ Len(next'[Sentinel]) >= 1
                   /\ next'[Sentinel][1] = Nil]_vars

C15_Witness ==
    /\ built = "list"
    /\ maxLevel = MaxMaxLevel
    /\ Length = 0
    /\ NextAt(Sentinel, 0) = Nil
    /\ \A t \in Threads : pc[t] = "lock"

\* an upper bound on the steps goroutine t has left before its call has
\* returned and released the mutex
StepsLeft(t) ==
    CASE pc[t] = "lock" -> 0
      [] pc[t] = "panic" -> 0
      [] pc[t] = "return" -> 1
      [] pc[t] \in {"set_count", "rm_count"} -> 2
      [] pc[t] = "rm_unlink" -> (Len(next[element[t]]) - idx[t]) + 2
      [] pc[t] = "set_publish" -> 2 * (Len(next[element[t]]) - idx[t]) + 1
      [] pc[t] = "set_init" -> 2 * (Len(next[element[t]]) - idx[t]) + 2
      [] pc[t] = "search" -> 2 * DefaultMaxLevel + 3

\* goroutine t can take a step that brings its call nearer to its return
CanAdvance(t) == ENABLED (Body(t) /\ pc'[t] # "panic" /\ StepsLeft(t)' < StepsLeft(t))

\* C16: every started Set, Get and Remove runs to completion and releases the
\* mutex: no call is cut off, a call under way can always take a step towards
\* its return, the steps it has left are bounded, the mutex is held only by a
\* call under way, and whenever it is free a waiting goroutine can take it.
C16_EveryCallReturns ==
    \A t \in Threads :
        /\ pc[t] # "panic"
        /\ InBody(t) => CanAdvance(t)
        /\ StepsLeft(t) <= 2 * DefaultMaxLevel + 3
        /\ mutex # Nil => InBody(mutex)
        /\ (pc[t] = "lock" /\ Quiescent) => ENABLED Lock(t, "Get", <<1>>, Nil)

\* C16 on the lists whose sentinel holds every level (not the claim: what is
\* left of it where the search cannot run off the sentinel's array)
C16_UpToDefaultLevel ==
    maxLevel <= DefaultMaxLevel => C16_EveryCallReturns

\* every step of a call under way uses up one of the steps it has left, so no
\* loop of Set or Remove runs forever
C16_StepsDecrease ==
    [][\A t \in Threads :
          (InBody(t) /\ pc'[t] # pc[t]) => StepsLeft(t)' < StepsLeft(t)]_vars

\* the Elements the unlink loop of a Remove has been through
Unlinked ==
    removed \cup {element[t] : t \in {u \in Threads : pc[u] = "rm_count"}}

\* C17: once Remove has unlinked an element, no later step of any Set or
\* Remove writes one of that element's own forward slots: not the rest of the
\* Remove, not a Set that inserts the same key again, not the removal of what
\* used to be its neighbours.
C17_RemovedPointersFrozen ==
    [][\A e \in Unlinked : next'[e] = next[e]]_vars

\* e was removed, its key is back in the list in another Element, and the
\* neighbour its slot 0 still names has been removed after it
C17_Witness ==
    \E e, f \in removed :
        /\ e # f
        /\ NextAt(e, 0) = f
        /\ Holder(key[e]) \notin {Nil, e}
        /\ Quiescent

\* the positions of the level-i chain whose keys are strictly less than k
BelowOn(i, k) ==
    {j \in 1..Len(LevelChain(i)) : bytesCompare(key[LevelChain(i)[j]], k) < 0}

\* the rightmost node of the level-i chain whose key is strictly less than k,
\* the sentinel when there is none
RightmostBelow(i, k) ==
    IF BelowOn(i, k) = {} THEN Sentinel
    ELSE LevelChain(i)[CHOOSE j \in BelowOn(i, k) : \A m \in BelowOn(i, k) : m <= j]

\* what C18 says of the search for k in the present state
SearchFinds(k) ==
    /\ ~getPrevElementNodes(k).panic
    /\ \A i \in 0..(maxLevel - 1) :
           getPrevElementNodes(k).prevs[i + 1] = RightmostBelow(i, k)
    /\ \/ Candidate(getPrevElementNodes(k).prevs) = Nil
       \/ bytesCompare(key[Candidate(getPrevElementNodes(k).prevs)], k) >= 0
    /\ matches(Candidate(getPrevElementNodes(k).prevs), k)
           <=> /\ Candidate(getPrevElementNodes(k).prevs) # Nil
               /\ key[Candidate(getPrevElementNodes(k).prevs)] = k
    /\ matches(Candidate(getPrevElementNodes(k).prevs), k) =>
           \A i \in 0..(Len(next[Candidate(getPrevElementNodes(k).prevs)]) - 1) :
               NextAt(getPrevElementNodes(k).prevs[i + 1], i)
                   = Candidate(getPrevElementNodes(k).prevs)

\* C18: on every list state that completed Set and Remove calls have reached,
\* the predecessor search for k records at every level i below maxLevel the
\* rightmost node of the level-i chain with a key strictly less than k (the
\* sentinel if none), the level-0 successor of prevs[0] is absent or has a key
\* >= k, the match test succeeds exactly when that successor holds k, and then
\* prevs[i].next[i] is that element at every level below its height.
C18_SearchFindsPredecessors ==
    Quiescent => \A k \in Keys : SearchFinds(k)

\* C18 on the lists whose sentinel holds every level (not the claim: what is
\* left of it where the search cannot run off the sentinel's array)
C18_UpToDefaultLevel ==
    maxLevel <= DefaultMaxLevel => C18_SearchFindsPredecessors

\* C19: every element Set creates has a height, the length of its forward
\* array, from 1 to maxLevel, whatever Int63() returned and whatever
\* probability has been set, and no step of a Set or a Remove changes the
\* height of an element that exists.
C19_HeightInRangeAndFixed ==
    /\ [](\A e \in 1..nelems : Len(next[e]) >= 1 /\ Len(next[e]) <= maxLevel)
    /\ [][\A e \in 1..nelems : Len(next'[e]) = Len(next[e])]_vars

\* after a SetProbability the list holds an element of height 1 and one of
\* height maxLevel > 1, one of them removed, the other still linked
C19_Witness ==
    /\ Quiescent
    /\ probability # DefaultProbability
    /\ maxLevel > 1
    /\ \E e \in removed, f \in Linked :
           {Len(next[e]), Len(next[f])} = {1, maxLevel}

\* C20: in every state, also inside a Set or a Remove, slot 0 of every element
\* created so far, linked or removed, is nil or points to an element with a
\* strictly greater key; so every Next() of a traversal without the mutex
\* moves to a strictly greater key or ends it: keys come strictly ascending, no
\* key twice, no loop.
C20_Level0PointsForward ==
    /\ [](\A e \in 1..nelems :
             NextAt(e, 0) # Nil => bytesCompare(key[e], key[NextAt(e, 0)]) < 0)
    /\ [][\A r \in Readers :
             (ElementNext(r) /\ cur'[r] # Nil) =>
                 bytesCompare(key[cur[r]], key[cur'[r]]) < 0]_vars

\* a traversal stands on a removed element whose slot 0 still names an element,
\* while the writer is in the middle of the next Set or Remove
C20_Witness ==
    \E r \in Readers :
        /\ rpc[r] = "iter"
        /\ cur[r] \in removed
        /\ NextAt(cur[r], 0) # Nil
        /\ pc[Writer] \in {"set_publish", "rm_unlink"}
        /\ idx[Writer] = 0

====
